---- MODULE Spec2Model ----
(***************************************************************************)
(* Model of press/press/doctype/deploy_candidate/docker_output_parsers.py  *)
(* (DockerBuildOutputParser).                                              *)
(*                                                                         *)
(* A Python str is a sequence of one-character strings; the ESC control    *)
(* character (\x1B) is the single element "ESC" and the backquote          *)
(* character (\x60) is the single element "BQ".                            *)
(***************************************************************************)
EXTENDS Integers, Sequences, FiniteSets, TLC

(***************************************************************************)
(* Bounds of the exploration.                                              *)
(***************************************************************************)
\* longest output (number of raw lines) handed to one parse()
MaxLen == 2
\* largest step index the build tool prints (#1 .. #MaxIndex)
MaxIndex == 2
\* last reading of the wall clock, in seconds
MaxClock == 2

(***************************************************************************)
(* Python str methods.                                                     *)
(***************************************************************************)
Whitespace == {" ", "\t", "\n"}

DigitChars == <<"0", "1", "2", "3", "4", "5", "6", "7", "8", "9">>

Digits == {DigitChars[i] : i \in 1..10}

DigitValue(c) == (CHOOSE i \in 1..10 : DigitChars[i] = c) - 1

\* a local variable: v is evaluated where it is assigned, and F is the code
\* that follows with the value under the variable's name
Bind(v, F(_)) == CHOOSE r \in {F(x) : x \in {v}} : TRUE

\* s[k:]
SliceFrom(s, k) == SubSeq(s, k + 1, Len(s))

\* s[:-1]
DropLast(s) == SubSeq(s, 1, Len(s) - 1)

\* s.startswith(p)
startswith(s, p) == Len(s) >= Len(p) /\ SubSeq(s, 1, Len(p)) = p

RECURSIVE FindChar(_, _, _)
\* least i >= from with s[i] \in cs, or 0
FindChar(s, cs, from) ==
    IF from > Len(s) THEN 0
    ELSE IF s[from] \in cs THEN from
    ELSE FindChar(s, cs, from + 1)

RECURSIVE FindNotChar(_, _, _)
\* least i >= from with s[i] \notin cs, or 0
FindNotChar(s, cs, from) ==
    IF from > Len(s) THEN 0
    ELSE IF s[from] \notin cs THEN from
    ELSE FindNotChar(s, cs, from + 1)

RECURSIVE RFindNotChar(_, _, _)
\* greatest i <= from with s[i] \notin cs, or 0
RFindNotChar(s, cs, from) ==
    IF from < 1 THEN 0
    ELSE IF s[from] \notin cs THEN from
    ELSE RFindNotChar(s, cs, from - 1)

RECURSIVE Find(_, _, _)
\* s.find(sub) counted from 1: least i >= from where sub occurs, or 0
Find(s, sub, from) ==
    IF from + Len(sub) - 1 > Len(s) THEN 0
    ELSE IF SubSeq(s, from, from + Len(sub) - 1) = sub THEN from
    ELSE Find(s, sub, from + 1)

\* s.strip()
strip(s) ==
    LET a == FindNotChar(s, Whitespace, 1)
    IN  IF a = 0 THEN <<>>
        ELSE SubSeq(s, a, RFindNotChar(s, Whitespace, Len(s)))

\* s.lstrip()
lstrip(s) ==
    LET a == FindNotChar(s, Whitespace, 1)
    IN  IF a = 0 THEN <<>> ELSE SubSeq(s, a, Len(s))

RECURSIVE split(_)
\* s.split(): the whitespace-delimited tokens of s
split(s) ==
    Bind(lstrip(s), LAMBDA t :
    Bind(FindChar(t, Whitespace, 1), LAMBDA e :
        IF t = <<>> THEN <<>>
        ELSE IF e = 0 THEN <<t>>
        ELSE <<SubSeq(t, 1, e - 1)>> \o split(SubSeq(t, e, Len(t)))))

\* s.split(maxsplit=1): the first token and the rest, the rest without its
\* leading whitespace
split_maxsplit1(s) ==
    Bind(lstrip(s), LAMBDA t :
    Bind(FindChar(t, Whitespace, 1), LAMBDA e :
    Bind(IF e = 0 THEN <<>> ELSE lstrip(SubSeq(t, e, Len(t))), LAMBDA rest :
        IF t = <<>> THEN <<>>
        ELSE IF rest = <<>> THEN <<IF e = 0 THEN t ELSE SubSeq(t, 1, e - 1)>>
        ELSE <<SubSeq(t, 1, e - 1), rest>>)))

RECURSIVE split_sep(_, _)
\* s.split(c) for a one-character separator c
split_sep(s, c) ==
    LET e == FindChar(s, {c}, 1)
    IN  IF e = 0 THEN <<s>>
        ELSE <<SubSeq(s, 1, e - 1)>> \o split_sep(SubSeq(s, e + 1, Len(s)), c)

\* s.split(c, maxsplit=1)
split_sep_maxsplit1(s, c) ==
    LET e == FindChar(s, {c}, 1)
    IN  IF e = 0 THEN <<s>>
        ELSE <<SubSeq(s, 1, e - 1), SubSeq(s, e + 1, Len(s))>>

\* s.partition(" ")[2]
partition_tail(s) ==
    LET e == FindChar(s, {" "}, 1)
    IN  IF e = 0 THEN <<>> ELSE SubSeq(s, e + 1, Len(s))

RECURSIVE replace(_, _, _)
\* s.replace(old, new), old not empty
replace(s, old, new) ==
    IF Len(s) < Len(old) THEN s
    ELSE IF SubSeq(s, 1, Len(old)) = old
         THEN new \o replace(SubSeq(s, Len(old) + 1, Len(s)), old, new)
    ELSE <<Head(s)>> \o replace(Tail(s), old, new)

RECURSIVE join(_)
\* "".join(lines)
join(ls) == IF ls = <<>> THEN <<>> ELSE Head(ls) \o join(Tail(ls))

\* int(s) succeeds: s is a non-empty run of decimal digits
IsInt(s) == s # <<>> /\ \A i \in 1..Len(s) : s[i] \in Digits

RECURSIVE IntValue(_)
\* int(s) for a run of decimal digits
IntValue(s) ==
    IF s = <<>> THEN 0
    ELSE 10 * IntValue(DropLast(s)) + DigitValue(s[Len(s)])

\* float(s) succeeds: digits with at most one decimal point
IsFloat(s) ==
    /\ \A i \in 1..Len(s) : s[i] \in Digits \cup {"."}
    /\ Cardinality({i \in 1..Len(s) : s[i] = "."}) <= 1
    /\ \E i \in 1..Len(s) : s[i] \in Digits

(***************************************************************************)
(* ansi_escape_rx = \x1B(?:[@-Z\\-_]|\[[0-?]*[ -/]*[@-~])                  *)
(***************************************************************************)
UpperChars ==
    {"A", "B", "C", "D", "E", "F", "G", "H", "I", "J", "K", "L", "M",
     "N", "O", "P", "Q", "R", "S", "T", "U", "V", "W", "X", "Y", "Z"}

LowerChars ==
    {"a", "b", "c", "d", "e", "f", "g", "h", "i", "j", "k", "l", "m",
     "n", "o", "p", "q", "r", "s", "t", "u", "v", "w", "x", "y", "z"}

\* [@-Z\\-_]
FeChars == {"@"} \cup UpperChars \cup {"\\", "]", "^", "_"}

\* [0-?]
CsiParamChars == Digits \cup {":", ";", "<", "=", ">", "?"}

\* [ -/]
CsiInterChars ==
    {" ", "!", "\"", "#", "$", "%", "&", "'", "(", ")", "*", "+", ",", "-",
     ".", "/"}

\* [@-~]
CsiFinalChars ==
    {"@"} \cup UpperChars \cup {"[", "\\", "]", "^", "_", "BQ"}
        \cup LowerChars \cup {"{", "|", "}", "~"}

\* length of the match of ansi_escape_rx that starts at position i, or 0
AnsiMatchLen(s, i) ==
    IF i + 1 > Len(s) \/ s[i] # "ESC" THEN 0
    ELSE IF s[i + 1] \in FeChars THEN 2
    ELSE IF s[i + 1] # "[" THEN 0
    ELSE LET a == FindNotChar(s, CsiParamChars, i + 2)
             b == IF a = 0 THEN 0 ELSE FindNotChar(s, CsiInterChars, a)
         IN  IF b # 0 /\ s[b] \in CsiFinalChars THEN b - i + 1 ELSE 0

RECURSIVE AnsiSubFrom(_, _)
AnsiSubFrom(s, i) ==
    IF i > Len(s) THEN <<>>
    ELSE LET n == AnsiMatchLen(s, i)
         IN  IF n > 0 THEN AnsiSubFrom(s, i + n)
             ELSE <<s[i]>> \o AnsiSubFrom(s, i + 1)

\* ansi_escape(text) = ansi_escape_rx.sub("", text)
ansi_escape(text) == AnsiSubFrom(text, 1)

(***************************************************************************)
(* Values of a step index: None, an int n, or the tuple (n,) that the      *)
(* fallback of _get_step_index_split builds.  depth counts the tuple       *)
(* nesting: -1 for None, 0 for an int, 1 for (n,), 2 for ((n,),).          *)
(***************************************************************************)
NoneIndex == [depth |-> -1, n |-> 0]

IntIndex(n) == [depth |-> 0, n |-> n]

\* (x,)
TupleOf(x) == [depth |-> x.depth + 1, n |-> x.n]

\* exceptions a line can raise; NoExc when it raises none
NoExc == "none"

(***************************************************************************)
(* String constants of the parser.                                         *)
(***************************************************************************)
\* "writing image"
WritingImage == <<"w", "r", "i", "t", "i", "n", "g", " ", "i", "m", "a", "g", "e">>

\* "[stage-"
StagePrefix == <<"[", "s", "t", "a", "g", "e", "-">>

\* "RUN"
RunVerb == <<"R", "U", "N">>

\* the backquote followed by "#stage-"
MarkerPrefix == <<"BQ", "#", "s", "t", "a", "g", "e", "-">>

\* "sha256:"
Sha256Prefix == <<"s", "h", "a", "2", "5", "6", ":">>

\* "DONE"
DoneWord == <<"D", "O", "N", "E">>

\* "CACHED"
CachedWord == <<"C", "A", "C", "H", "E", "D">>

\* "ERROR"
ErrorWord == <<"E", "R", "R", "O", "R">>

\* "   "
ThreeSpaces == <<" ", " ", " ">>

\* " \\\n  "
LineContinuation == <<" ", "\\", "\n", " ", " ">>

\* "apps"
AppsStage == <<"a", "p", "p", "s">>

\* "bench get-app "
BenchGetApp == <<"b", "e", "n", "c", "h", " ", "g", "e", "t", "-", "a", "p", "p", " ">>

(***************************************************************************)
(* float(s) as a decimal: mant / 10^frac, without trailing zero decimals.  *)
(***************************************************************************)
RECURSIVE NormDecimal(_, _)
NormDecimal(mant, frac) ==
    IF frac > 0 /\ mant % 10 = 0 THEN NormDecimal(mant \div 10, frac - 1)
    ELSE [set |-> TRUE, mant |-> mant, frac |-> frac]

\* float(s) for an s that IsFloat accepts
FloatValue(s) ==
    LET dot == FindChar(s, {"."}, 1)
        digits == SelectSeq(s, LAMBDA c : c # ".")
    IN  NormDecimal(IntValue(digits), IF dot = 0 THEN 0 ELSE Len(s) - dot)

\* a duration that was never set
NoDuration == [set |-> FALSE, mant |-> 0, frac |-> 0]

(***************************************************************************)
(* The build steps of the Deploy Candidate (dc.build_steps) are a sequence *)
(* of records; the parser's maps hold references to them, modelled as      *)
(* positions in that sequence.                                             *)
(***************************************************************************)

\* {bs.step_index: bs for bs in dc.build_steps}: a later step replaces an
\* earlier one that has the same step_index
StepsByIndex(bsteps) ==
    [k \in {bsteps[p].step_index : p \in 1..Len(bsteps)} |->
        CHOOSE p \in 1..Len(bsteps) :
            /\ bsteps[p].step_index = k
            /\ \A q \in 1..Len(bsteps) : bsteps[q].step_index = k => q <= p]

\* {bs.step_slug: bs for bs in dc.build_steps}
StepsBySlug(bsteps) ==
    [k \in {bsteps[p].step_slug : p \in 1..Len(bsteps)} |->
        CHOOSE p \in 1..Len(bsteps) :
            /\ bsteps[p].step_slug = k
            /\ \A q \in 1..Len(bsteps) : bsteps[q].step_slug = k => q <= p]

\* sorted(self.steps)[-1]: ints and tuples do not compare (TypeError), an
\* empty list has no last element (IndexError)
SortedLast(steps) ==
    LET keys == DOMAIN steps
    IN  IF \E a, b \in keys : a.depth # b.depth
        THEN [exc |-> "TypeError", value |-> NoneIndex]
        ELSE IF keys = {}
        THEN [exc |-> "IndexError", value |-> NoneIndex]
        ELSE [exc |-> NoExc,
              value |-> CHOOSE k \in keys : \A o \in keys : o.n <= k.n]

\* the two fallback returns of _get_step_index_split
FallbackSplit(steps, escaped_line) ==
    LET last == SortedLast(steps)
    IN  [exc |-> last.exc, index |-> TupleOf(last.value),
         line |-> escaped_line, is_unusual |-> TRUE]

_get_step_index_split(steps, escaped_line) ==
    Bind(split_maxsplit1(escaped_line), LAMBDA splits :
        IF Len(splits) # 2 THEN FallbackSplit(steps, escaped_line)
        ELSE IF IsInt(SliceFrom(splits[1], 1))
        THEN [exc |-> NoExc,
              index |-> IntIndex(IntValue(SliceFrom(splits[1], 1))),
              line |-> splits[2], is_unusual |-> FALSE]
        ELSE FallbackSplit(steps, escaped_line))

\* line.split()[2].split(":")[1]
_set_docker_image_id(image_id, line) ==
    Bind(split(line), LAMBDA toks :
    Bind(IF Len(toks) >= 3 THEN split_sep(toks[3], ":") ELSE <<>>, LAMBDA parts :
        IF Len(parts) >= 2
        THEN [exc |-> NoExc, docker_image_id |-> parts[2]]
        ELSE [exc |-> "IndexError", docker_image_id |-> image_id]))

\* the DONE branch of _update_dc_build_step for the step at position p:
\* the status is set before float() reads the duration
DoneUpdate(bsteps, p, toks) ==
    IF Len(toks) < 2
    THEN [exc |-> "IndexError", build_steps |->
            [bsteps EXCEPT ![p].status = "Success"]]
    ELSE IF ~IsFloat(DropLast(toks[2]))
    THEN [exc |-> "ValueError", build_steps |->
            [bsteps EXCEPT ![p].status = "Success"]]
    ELSE [exc |-> NoExc, build_steps |->
            [bsteps EXCEPT ![p].status = "Success",
                           ![p].duration = FloatValue(DropLast(toks[2]))]]

\* an update whose last branch replaces the output by the line's text
UpdateStepOverwrites(bsteps, p, line, is_unusual) ==
    IF is_unusual
    THEN [exc |-> NoExc, build_steps |->
            [bsteps EXCEPT ![p].output = @ \o line \o <<"\n">>]]
    ELSE IF startswith(line, Sha256Prefix)
    THEN [exc |-> NoExc, build_steps |->
            [bsteps EXCEPT ![p].hash = SliceFrom(line, 7)]]
    ELSE IF startswith(line, DoneWord)
    THEN DoneUpdate(bsteps, p, split(line))
    ELSE IF line = CachedWord
    THEN [exc |-> NoExc, build_steps |->
            [bsteps EXCEPT ![p].status = "Success", ![p].cached = TRUE]]
    ELSE IF startswith(line, ErrorWord)
    THEN [exc |-> NoExc, build_steps |->
            [bsteps EXCEPT ![p].status = "Failure",
                           ![p].output = @ \o SliceFrom(line, 7) \o <<"\n">>]]
    ELSE [exc |-> NoExc, build_steps |->
            [bsteps EXCEPT ![p].output = partition_tail(line) \o <<"\n">>]]

\* the body of _update_dc_build_step once dc_step is found at position p
UpdateStepAt(bsteps, p, line, is_unusual) ==
    IF is_unusual
    THEN [exc |-> NoExc, build_steps |->
            [bsteps EXCEPT ![p].output = @ \o line \o <<"\n">>]]
    ELSE IF startswith(line, Sha256Prefix)
    THEN [exc |-> NoExc, build_steps |->
            [bsteps EXCEPT ![p].hash = SliceFrom(line, 7)]]
    ELSE IF startswith(line, DoneWord)
    THEN DoneUpdate(bsteps, p, split(line))
    ELSE IF line = CachedWord
    THEN [exc |-> NoExc, build_steps |->
            [bsteps EXCEPT ![p].status = "Success", ![p].cached = TRUE]]
    ELSE IF startswith(line, ErrorWord)
    THEN [exc |-> NoExc, build_steps |->
            [bsteps EXCEPT ![p].status = "Failure",
                           ![p].output = @ \o SliceFrom(line, 7) \o <<"\n">>]]
    ELSE [exc |-> NoExc, build_steps |->
            [bsteps EXCEPT ![p].output = @ \o partition_tail(line) \o <<"\n">>]]

_update_dc_build_step(bsteps, by_index, sp) ==
    IF sp.index \notin DOMAIN by_index THEN [exc |-> NoExc, build_steps |-> bsteps]
    ELSE UpdateStepAt(bsteps, by_index[sp.index], sp.line, sp.is_unusual)

RECURSIVE RFindChar(_, _, _, _)
\* greatest i with from <= i <= to and s[i] = c, or 0
RFindChar(s, c, from, to) ==
    IF to < from THEN 0
    ELSE IF s[to] = c THEN to
    ELSE RFindChar(s, c, from, to - 1)

\* the end of the group of the marker that starts at p: the last backquote
\* before the next newline, or 0
MarkerEnd(name, p, nl) ==
    RFindChar(name, "BQ", p + 8, IF nl = 0 THEN Len(name) ELSE nl - 1)

RECURSIVE StageMarkerSearch(_, _)
\* re.search of the backquoted marker #stage-(.*) in name: the leftmost
\* start, the group as long as possible and without a newline
StageMarkerSearch(name, from) ==
    Bind(Find(name, MarkerPrefix, from), LAMBDA p :
        IF p = 0 THEN [found |-> FALSE, group0 |-> <<>>, group1 |-> <<>>]
        ELSE Bind(MarkerEnd(name, p, FindChar(name, {"\n"}, p + 8)), LAMBDA q :
            IF q = 0 THEN StageMarkerSearch(name, p + 1)
            ELSE [found |-> TRUE, group0 |-> SubSeq(name, p, q),
                  group1 |-> SubSeq(name, p + 8, q - 1)]))

\* the first position from 2 on whose word of toks does not start with --
FlagsEnd(toks) ==
    CHOOSE i \in 2..(Len(toks) + 1) :
        /\ i = Len(toks) + 1 \/ ~startswith(toks[i], <<"-", "-">>)
        /\ \A j \in 2..(i - 1) : startswith(toks[j], <<"-", "-">>)

\* dockerfile.parse_string(name)[0].flags: the words starting with -- that
\* directly follow the instruction
RunFlags(name) ==
    Bind(split(name), LAMBDA toks : SubSeq(toks, 2, FlagsEnd(toks) - 1))

\* name with the first flag, the marker and the surrounding whitespace
\* removed, continuation lines for runs of three spaces, and without "RUN "
CleanName(name, flags, match) ==
    SliceFrom(
        replace(
            strip(replace(
                IF flags # <<>> THEN replace(name, flags[1], <<>>) ELSE name,
                match.group0, <<>>)),
            ThreeSpaces, LineContinuation),
        4)

get_name_and_slugs(name, match) ==
    Bind(CleanName(name, RunFlags(name), match), LAMBDA n3 :
    Bind(split_sep_maxsplit1(match.group1, "-"), LAMBDA slugs :
        IF Len(slugs) # 2
        THEN [exc |-> "ValueError", name |-> n3, stage_slug |-> <<>>, step_slug |-> <<>>]
        ELSE [exc |-> NoExc, name |-> n3, stage_slug |-> slugs[1], step_slug |-> slugs[2]]))

\* the assignments of _add_step_to_steps_dict to the step at position p
StartStepAt(bsteps, steps, p, index, nss) ==
    [exc |-> NoExc,
     build_steps |->
        [bsteps EXCEPT ![p].step_index = index,
                       ![p].command = IF nss.stage_slug = AppsStage
                                      THEN BenchGetApp \o nss.step_slug
                                      ELSE nss.name,
                       ![p].status = "Running",
                       ![p].output = <<>>],
     steps |-> [k \in DOMAIN steps \cup {index} |->
                    IF k = index THEN p ELSE steps[k]]]

\* an _add_step_to_steps_dict that gives an undeclared slug the first build
\* step
AddStepAdoptsUndeclared(bsteps, steps, by_slug, sp) ==
    LET unchanged == [exc |-> NoExc, build_steps |-> bsteps, steps |-> steps]
    IN  IF ~startswith(sp.line, StagePrefix) THEN unchanged
        ELSE Bind(split_sep_maxsplit1(sp.line, "]"), LAMBDA parts :
        IF Len(parts) < 2 THEN [unchanged EXCEPT !.exc = "IndexError"]
        ELSE Bind(strip(parts[2]), LAMBDA name :
        IF ~startswith(name, RunVerb) THEN unchanged
        ELSE Bind(StageMarkerSearch(name, 1), LAMBDA match :
        IF ~match.found THEN unchanged
        ELSE Bind(get_name_and_slugs(name, match), LAMBDA nss :
        IF nss.exc # NoExc THEN [unchanged EXCEPT !.exc = nss.exc]
        ELSE StartStepAt(bsteps, steps,
                         IF nss.step_slug \in DOMAIN by_slug
                         THEN by_slug[nss.step_slug] ELSE 1,
                         sp.index, nss)))))

_add_step_to_steps_dict(bsteps, steps, by_slug, sp) ==
    LET unchanged == [exc |-> NoExc, build_steps |-> bsteps, steps |-> steps]
    IN  IF ~startswith(sp.line, StagePrefix) THEN unchanged
        ELSE Bind(split_sep_maxsplit1(sp.line, "]"), LAMBDA parts :
        IF Len(parts) < 2 THEN [unchanged EXCEPT !.exc = "IndexError"]
        ELSE Bind(strip(parts[2]), LAMBDA name :
        IF ~startswith(name, RunVerb) THEN unchanged
        ELSE Bind(StageMarkerSearch(name, 1), LAMBDA match :
        IF ~match.found THEN unchanged
        ELSE Bind(get_name_and_slugs(name, match), LAMBDA nss :
        IF nss.exc # NoExc THEN [unchanged EXCEPT !.exc = nss.exc]
        ELSE IF nss.step_slug \notin DOMAIN by_slug THEN unchanged
        ELSE StartStepAt(bsteps, steps, by_slug[nss.step_slug], sp.index, nss)))))

\* a _parse_line that appends the line to self.lines after the split, so
\* that a line whose split raises is not in the log
ParseSplitLogsLast(ps, bsteps, image_id, escaped_line, sp) ==
    LET same == [exc |-> NoExc, lines |-> Append(ps.lines, escaped_line),
                 steps |-> ps.steps, build_steps |-> bsteps,
                 docker_image_id |-> image_id]
    IN  IF sp.exc # NoExc THEN [same EXCEPT !.exc = sp.exc, !.lines = ps.lines]
        ELSE IF startswith(sp.line, WritingImage)
        THEN Bind(_set_docker_image_id(image_id, sp.line), LAMBDA img :
                [same EXCEPT !.exc = img.exc,
                             !.docker_image_id = img.docker_image_id])
        ELSE IF sp.index \in DOMAIN ps.steps
        THEN Bind(_update_dc_build_step(bsteps, ps.dc_steps_by_index, sp), LAMBDA upd :
                [same EXCEPT !.exc = upd.exc, !.build_steps = upd.build_steps])
        ELSE Bind(_add_step_to_steps_dict(bsteps, ps.steps,
                                          ps.dc_steps_by_step_slug, sp), LAMBDA add :
                [same EXCEPT !.exc = add.exc, !.build_steps = add.build_steps,
                             !.steps = add.steps])

\* the branches of _parse_line after the split sp of the escaped line
ParseSplit(ps, bsteps, image_id, escaped_line, sp) ==
    LET same == [exc |-> NoExc, lines |-> Append(ps.lines, escaped_line),
                 steps |-> ps.steps, build_steps |-> bsteps,
                 docker_image_id |-> image_id]
    IN  IF sp.exc # NoExc THEN [same EXCEPT !.exc = sp.exc]
        ELSE IF startswith(sp.line, WritingImage)
        THEN Bind(_set_docker_image_id(image_id, sp.line), LAMBDA img :
                [same EXCEPT !.exc = img.exc,
                             !.docker_image_id = img.docker_image_id])
        ELSE IF sp.index \in DOMAIN ps.steps
        THEN Bind(_update_dc_build_step(bsteps, ps.dc_steps_by_index, sp), LAMBDA upd :
                [same EXCEPT !.exc = upd.exc, !.build_steps = upd.build_steps])
        ELSE Bind(_add_step_to_steps_dict(bsteps, ps.steps,
                                          ps.dc_steps_by_step_slug, sp), LAMBDA add :
                [same EXCEPT !.exc = add.exc, !.build_steps = add.build_steps,
                             !.steps = add.steps])

\* _parse_line on the parser state ps = [lines, steps, dc_steps_by_index,
\* dc_steps_by_step_slug, ...] and the candidate's fields
_parse_line(ps, bsteps, image_id, raw_line) ==
    Bind(strip(ansi_escape(raw_line)), LAMBDA escaped_line :
        IF escaped_line = <<>>
        THEN [exc |-> NoExc, lines |-> ps.lines, steps |-> ps.steps,
              build_steps |-> bsteps, docker_image_id |-> image_id]
        ELSE ParseSplit(ps, bsteps, image_id, escaped_line,
                        _get_step_index_split(ps.steps, escaped_line)))

(***************************************************************************)
(* The raw lines of a docker build output the parse is explored on.        *)
(***************************************************************************)
\* the build tool's index prefix #<i>
IndexPrefix(i) == <<"#", DigitChars[i + 1]>>

Indices == 1..MaxIndex

\* step slugs of the declared build steps, and a slug that is not declared
SlugA == <<"a">>

SlugB == <<"b">>

SlugUndeclared == <<"z">>

\* "[stage-0 1/2] RUN --mount=c ls   -a <marker of stage x, step a>"
StartTextA ==
    <<"[", "s", "t", "a", "g", "e", "-", "0", " ", "1", "/", "2", "]", " ",
      "R", "U", "N", " ", "-", "-", "m", "o", "u", "n", "t", "=", "c", " ",
      "l", "s", " ", " ", " ", "-", "a", " ">>
        \o MarkerPrefix \o <<"x", "-">> \o SlugA \o <<"BQ">>

\* "[stage-0 2/2] RUN ls <marker of stage apps, step b>"
StartTextB ==
    <<"[", "s", "t", "a", "g", "e", "-", "0", " ", "2", "/", "2", "]", " ",
      "R", "U", "N", " ", "l", "s", " ">>
        \o MarkerPrefix \o AppsStage \o <<"-">> \o SlugB \o <<"BQ">>

\* "[stage-0 2/2] RUN ls <marker of stage x, step z>"
StartTextUndeclared ==
    <<"[", "s", "t", "a", "g", "e", "-", "0", " ", "2", "/", "2", "]", " ",
      "R", "U", "N", " ", "l", "s", " ">>
        \o MarkerPrefix \o <<"x", "-">> \o SlugUndeclared \o <<"BQ">>

\* "DONE 2.4s"
DoneText == <<"D", "O", "N", "E", " ", "2", ".", "4", "s">>

\* "ERROR: denied"
ErrorText == <<"E", "R", "R", "O", "R", ":", " ", "d", "e", "n", "i", "e", "d">>

\* "sha256:ab12"
HashText == <<"s", "h", "a", "2", "5", "6", ":", "a", "b", "1", "2">>

\* "0.3 hello"
ContinuationText == <<"0", ".", "3", " ", "h", "e", "l", "l", "o">>

\* "writing image sha256:cd34 done"
ImageText ==
    <<"w", "r", "i", "t", "i", "n", "g", " ", "i", "m", "a", "g", "e", " ",
      "s", "h", "a", "2", "5", "6", ":", "c", "d", "3", "4", " ", "d", "o", "n", "e">>

\* "oops": a line without an index prefix
UnusualText == <<"o", "o", "p", "s">>

\* a line with the index prefix #<i>, as the build tool writes it
Indexed(i, text) == IndexPrefix(i) \o <<" ">> \o text \o <<"\n">>

StartLine(i, text) == Indexed(i, text)

DoneLine(i) == Indexed(i, DoneText)

\* DONE without a duration
BareDoneLine(i) == Indexed(i, DoneWord)

CachedLine(i) == Indexed(i, CachedWord)

ErrorLine(i) == Indexed(i, ErrorText)

HashLine(i) == Indexed(i, HashText)

ContinuationLine(i) == Indexed(i, ContinuationText)

ImageLine(i) == Indexed(i, ImageText)

\* the image line without an index prefix
BareImageLine == ImageText \o <<"\n">>

\* "writing image" and nothing else
BrokenImageLine(i) == Indexed(i, WritingImage)

\* a coloured line without an index prefix
UnusualLine == <<"ESC", "[", "3", "1", "m">> \o UnusualText \o <<"ESC", "[", "0", "m", "\n">>

\* a step start without an index prefix
BareStartLine == StartTextA \o <<"\n">>

\* a line that is empty once the control sequences are removed
BlankLine == <<"ESC", "[", "0", "m", " ", "\n">>

RawLines ==
    UNION {{StartLine(i, StartTextA), StartLine(i, StartTextB), DoneLine(i),
            BareDoneLine(i), CachedLine(i), ErrorLine(i), HashLine(i),
            ContinuationLine(i)} : i \in Indices}
    \cup {StartLine(1, StartTextUndeclared), ImageLine(MaxIndex),
          BareImageLine, BrokenImageLine(MaxIndex), UnusualLine,
          BareStartLine, BlankLine}

(***************************************************************************)
(* State.                                                                  *)
(***************************************************************************)
VARIABLES
    build_steps,      \* dc.build_steps
    docker_image_id,  \* dc.docker_image_id, <<>> while unset
    build_output,     \* dc.build_output
    dc_last_updated,  \* dc.last_updated
    is_remote,        \* dc.is_docker_remote_builder_used
    parser,           \* the attributes of the DockerBuildOutputParser
    pc,               \* "idle", "parsing", "done" or "raised": where parse() is
    now,              \* the latest reading of now_datetime()
    db,               \* the store: the saved document and this parse's writes
    output,           \* the raw lines parse() has taken from its argument
    handled,          \* per taken line, the exception its processing raised
    before            \* dc.build_steps when the parser was constructed

vars ==
    <<build_steps, docker_image_id, build_output, dc_last_updated, is_remote,
      parser, pc, now, db, output, handled, before>>

dc_vars == <<build_steps, docker_image_id, build_output, dc_last_updated>>

\* a declared build step no build output has mentioned yet
FreshStep(slug) ==
    [step_slug |-> slug, step_index |-> NoneIndex, command |-> <<>>,
     status |-> "Pending", output |-> <<>>, cached |-> FALSE, hash |-> <<>>,
     duration |-> NoDuration]

DeclaredSteps == <<FreshStep(SlugA), FreshStep(SlugB)>>

\* the attributes __init__ sets; last_update is -1 while the parser has no
\* such attribute
NewParser(bsteps, remote, t) ==
    [is_remote |-> remote, last_updated |-> t, last_update |-> -1,
     build_output |-> <<>>, lines |-> <<>>, steps |-> <<>>,
     dc_steps_by_index |-> StepsByIndex(bsteps),
     dc_steps_by_step_slug |-> StepsBySlug(bsteps)]

NoParser == NewParser(<<>>, FALSE, 0)

\* the subclasses of Exception
ExceptionClasses == {"IndexError", "ValueError", "TypeError", "AttributeError"}

\* a handler that lets everything but a ValueError through
HandlerCatchesValueErrorOnly(exc) == exc = "ValueError"

\* except Exception:
HandlerCatches(exc) == exc \in ExceptionClasses

\* DockerBuildOutputParser defines no method save: self.save raises
ParserHasSave == FALSE

\* _update_dc_build_output, t the reading of now_datetime()
_update_dc_build_output(ps, t) ==
    IF ps.is_remote THEN [exc |-> NoExc, parser |-> ps, saved |-> FALSE]
    ELSE IF t - ps.last_updated <= 1 THEN [exc |-> NoExc, parser |-> ps, saved |-> FALSE]
    ELSE IF ~ParserHasSave
    THEN [exc |-> "AttributeError",
          parser |-> [ps EXCEPT !.build_output = join(ps.lines)],
          saved |-> FALSE]
    ELSE [exc |-> NoExc,
          parser |-> [ps EXCEPT !.build_output = join(ps.lines), !.last_update = t],
          saved |-> TRUE]

\* an _end_parsing that a local source throttles like a flush
ThrottledEndParsing(ps, bsteps, image_id, last_updated, t) ==
    [build_steps |-> bsteps,
     build_output |-> join(ps.lines),
     docker_image_id |-> image_id,
     last_updated |-> IF ps.is_remote THEN t ELSE last_updated,
     stamped |-> ps.is_remote,
     writes |-> IF ~ps.is_remote /\ t - ps.last_updated <= 1
                THEN <<>> ELSE <<"save", "commit">>]

\* _end_parsing, t the reading of now_datetime(): the document it saves
_end_parsing(ps, bsteps, image_id, last_updated, t) ==
    [build_steps |-> bsteps,
     build_output |-> join(ps.lines),
     docker_image_id |-> image_id,
     last_updated |-> IF ps.is_remote THEN t ELSE last_updated,
     stamped |-> ps.is_remote,
     writes |-> <<"save", "commit">>]

RECURSIVE ParseAll(_, _, _)
\* the build steps after the for loop of parse() over the raw lines
ParseAll(ps, bsteps, raw_lines) ==
    IF raw_lines = <<>> THEN bsteps
    ELSE Bind(_parse_line(ps, bsteps, <<>>, Head(raw_lines)), LAMBDA r :
            ParseAll([ps EXCEPT !.lines = r.lines, !.steps = r.steps],
                     r.build_steps, Tail(raw_lines)))

\* the build steps a parse of raw_lines by a new parser leaves
Reparse(bsteps, raw_lines) ==
    ParseAll(NewParser(bsteps, TRUE, 0), bsteps, raw_lines)

\* outputs of earlier builds of the candidate: step a not started, started
\* or finished under some index, step b not started or started
EarlierOutputs ==
    {oa \o ob :
        oa \in {<<>>}
            \cup {<<StartLine(i, StartTextA)>> : i \in Indices}
            \cup {<<StartLine(i, StartTextA), ContinuationLine(i), HashLine(i),
                    DoneLine(i)>> : i \in Indices},
        ob \in {<<>>, <<StartLine(MaxIndex, StartTextB)>>}}

\* the build steps as two polls of an earlier output left them
PersistedSteps ==
    {Reparse(Reparse(DeclaredSteps, o), o) : o \in EarlierOutputs}

Init ==
    /\ build_steps \in PersistedSteps
    /\ docker_image_id = <<>>
    /\ build_output = <<>>
    /\ dc_last_updated = 0
    /\ is_remote \in BOOLEAN
    /\ parser = NoParser
    /\ pc = "idle"
    /\ now = 0
    /\ db = [build_steps |-> build_steps, build_output |-> <<>>,
             docker_image_id |-> <<>>, last_updated |-> 0,
             stamped |-> FALSE, writes |-> <<>>, flushed_at |-> -1]
    /\ output = <<>>
    /\ handled = <<>>
    /\ before = build_steps

(***************************************************************************)
(* Operations.                                                             *)
(***************************************************************************)
\* DockerBuildOutputParser(dc)
Construct ==
    /\ pc = "idle"
    /\ parser' = NewParser(build_steps, is_remote, now)
    /\ pc' = "parsing"
    /\ UNCHANGED <<dc_vars, is_remote, now, db, output, handled, before>>

\* one iteration of the for loop of parse(): _parse_line_handle_exc(raw_line)
ParseLineHandleExc(raw_line) ==
    /\ pc = "parsing"
    /\ Len(output) < MaxLen
    /\ \E r \in {_parse_line(parser, build_steps, docker_image_id, raw_line)} :
       \E t \in (IF r.exc = NoExc /\ ~parser.is_remote THEN now..MaxClock ELSE {now}) :
       \E u \in {IF r.exc = NoExc
                 THEN _update_dc_build_output(
                          [parser EXCEPT !.lines = r.lines, !.steps = r.steps], t)
                 ELSE [exc |-> r.exc,
                       parser |-> [parser EXCEPT !.lines = r.lines, !.steps = r.steps],
                       saved |-> FALSE]} :
            /\ build_steps' = r.build_steps
            /\ docker_image_id' = r.docker_image_id
            /\ parser' = u.parser
            /\ now' = t
            /\ handled' = Append(handled, u.exc)
            /\ pc' = IF u.exc = NoExc \/ HandlerCatches(u.exc)
                     THEN "parsing" ELSE "raised"
            /\ db' = IF u.saved
                     THEN [db EXCEPT !.build_output = u.parser.build_output,
                                     !.writes = @ \o <<"flush", "commit">>,
                                     !.flushed_at = t]
                     ELSE db
    /\ output' = Append(output, raw_line)
    /\ UNCHANGED <<build_output, dc_last_updated, is_remote, before>>

\* the for loop of parse() is over: _end_parsing()
EndParsing ==
    /\ pc = "parsing"
    /\ \E t \in (IF parser.is_remote THEN now..MaxClock ELSE {now}) :
         LET doc == _end_parsing(parser, build_steps, docker_image_id, dc_last_updated, t)
         IN  /\ now' = t
             /\ dc_last_updated' = doc.last_updated
             /\ build_output' = doc.build_output
             /\ db' = [db EXCEPT !.build_steps = doc.build_steps,
                                 !.build_output = doc.build_output,
                                 !.docker_image_id = doc.docker_image_id,
                                 !.last_updated = doc.last_updated,
                                 !.stamped = doc.stamped,
                                 !.writes = @ \o doc.writes]
    /\ pc' = "done"
    /\ UNCHANGED <<build_steps, docker_image_id, is_remote, parser, output,
                   handled, before>>

Next ==
    \/ Construct
    \/ \E raw_line \in RawLines : ParseLineHandleExc(raw_line)
    \/ EndParsing

Spec == Init /\ [][Next]_vars

\* parse() runs to its end: the loop takes the next line or is over
FairSpec ==
    /\ Spec
    /\ WF_vars(Construct)
    /\ WF_vars(EndParsing)

(***************************************************************************)
(* Vocabulary of the properties.                                           *)
(***************************************************************************)
StepIds == 1..Len(build_steps)

\* the line as _parse_line sees it
Normalized(raw_line) == strip(ansi_escape(raw_line))

\* the normalized lines that are not empty, in order
RECURSIVE NormalizedLines(_)
NormalizedLines(raw_lines) ==
    IF raw_lines = <<>> THEN <<>>
    ELSE (IF Normalized(Head(raw_lines)) = <<>> THEN <<>>
          ELSE <<Normalized(Head(raw_lines))>>)
         \o NormalizedLines(Tail(raw_lines))

\* this step is the taking of one more line by the loop of parse()
TakesLine == pc = "parsing" /\ Len(output') = Len(output) + 1

\* the line such a step takes
TakenLine == output'[Len(output')]

\* the last line taken so far
LastLine == output[Len(output)]

\* the line carries the marker of the step slug
MentionsSlug(raw_line, slug) ==
    LET m == StageMarkerSearch(Normalized(raw_line), 1)
        slugs == split_sep_maxsplit1(m.group1, "-")
    IN  m.found /\ Len(slugs) = 2 /\ slugs[2] = slug

\* the line has no index prefix that parses as an integer
Unindexed(line) ==
    LET splits == split_maxsplit1(line)
    IN  Len(splits) # 2 \/ ~IsInt(SliceFrom(splits[1], 1))

\* the integer keys of active-by-index (self.steps)
IntKeys(steps) == {k \in DOMAIN steps : k.depth = 0}

HighestKey(steps) ==
    CHOOSE k \in IntKeys(steps) : \A o \in IntKeys(steps) : o.n <= k.n

SameSettledFields(s, t) ==
    /\ s.status = t.status
    /\ s.output = t.output
    /\ s.hash = t.hash
    /\ s.duration = t.duration
    /\ s.cached = t.cached
    /\ s.step_index = t.step_index

\* "2.4" and "cd34", the duration and the digest of DoneText and ImageText
DoneDuration == FloatValue(<<"2", ".", "4">>)

ImageDigest == <<"c", "d", "3", "4">>

(***************************************************************************)
(* C1: parsing the same lines again, with a new parser built from the      *)
(* state the first parse left, leaves every build step with the status,    *)
(* output, hash, duration, cached and step_index it had after the first    *)
(* parse.                                                                  *)
(***************************************************************************)
C1_IdempotentRedelivery ==
    pc = "done" =>
        \A p \in StepIds :
            SameSettledFields(Reparse(build_steps, output)[p], build_steps[p])

(***************************************************************************)
(* C2: an exception raised while a line is processed never leaves          *)
(* parse(); every line taken, also one after a line that raised, is        *)
(* processed in order (it is in the parser's lines), and the parse ends    *)
(* with the final save and commit.                                         *)
(***************************************************************************)
C2_FailureIsolation ==
    /\ pc # "raised"
    /\ Len(handled) = Len(output)
    /\ pc \in {"parsing", "done"} => parser.lines = NormalizedLines(output)
    /\ pc = "done" => db.writes = <<"save", "commit">>

\* the first line raised, the second one started step a, the parse ended
C2_Witness ==
    /\ pc = "done"
    /\ Len(output) = 2
    /\ output[1] = BareImageLine
    /\ handled[1] = "IndexError"
    /\ handled[2] = NoExc
    /\ before[1].status = "Pending"
    /\ build_steps[1].status = "Running"
    /\ db.writes = <<"save", "commit">>

(***************************************************************************)
(* C3: within a parse every change of a build step's status is             *)
(* Pending->Running, Running->Success or Running->Failure.                 *)
(***************************************************************************)
C3_StatusTransitions ==
    [][\A p \in StepIds :
          build_steps'[p].status # build_steps[p].status =>
              <<build_steps[p].status, build_steps'[p].status>> \in
                  {<<"Pending", "Running">>, <<"Running", "Success">>,
                   <<"Running", "Failure">>}]_vars

(***************************************************************************)
(* C4: a declared build step whose slug no line of the parsed output       *)
(* carries keeps the status it had before the parse.                       *)
(***************************************************************************)
C4_UnmentionedStepUnchanged ==
    \A p \in StepIds :
        (\A k \in 1..Len(output) : ~MentionsSlug(output[k], build_steps[p].step_slug))
            => build_steps[p].status = before[p].status

(***************************************************************************)
(* C5: a non-empty line without a parseable index, taken while a step is   *)
(* registered in active-by-index, is appended with a newline to the        *)
(* output of the step registered under the highest index and changes no    *)
(* status.                                                                 *)
(***************************************************************************)
C5_FallbackAttribution ==
    [][(/\ TakesLine
        /\ Normalized(TakenLine) # <<>>
        /\ Unindexed(Normalized(TakenLine))
        /\ ~startswith(Normalized(TakenLine), WritingImage)
        /\ IntKeys(parser.steps) # {})
       => LET p == parser.steps[HighestKey(parser.steps)]
          IN  /\ build_steps'[p].output =
                    build_steps[p].output \o Normalized(TakenLine) \o <<"\n">>
              /\ \A q \in StepIds : build_steps'[q].status = build_steps[q].status]_vars

(***************************************************************************)
(* C6: after the line "#i DONE 2.4s" for an index i registered earlier in  *)
(* the parse, the step registered under i has status Success and           *)
(* duration 2.4.                                                           *)
(***************************************************************************)
C6_DoneSettles ==
    \A i \in Indices :
        (/\ pc \in {"parsing", "done"}
         /\ output # <<>>
         /\ LastLine = DoneLine(i)
         /\ IntIndex(i) \in DOMAIN parser.steps)
        => LET p == parser.steps[IntIndex(i)]
           IN  /\ build_steps[p].status = "Success"
               /\ build_steps[p].duration = DoneDuration

(***************************************************************************)
(* C7: after the line "#i CACHED" for an index i registered earlier in     *)
(* the parse, with no DONE or sha256 line for i in the output, the step    *)
(* registered under i has status Success, cached set, and neither a hash   *)
(* nor a duration.                                                         *)
(***************************************************************************)
C7_CachedSettles ==
    \A i \in Indices :
        (/\ pc \in {"parsing", "done"}
         /\ output # <<>>
         /\ LastLine = CachedLine(i)
         /\ IntIndex(i) \in DOMAIN parser.steps
         /\ \A k \in 1..Len(output) :
                output[k] \notin {DoneLine(i), BareDoneLine(i), HashLine(i)})
        => LET p == parser.steps[IntIndex(i)]
           IN  /\ build_steps[p].status = "Success"
               /\ build_steps[p].cached
               /\ build_steps[p].hash = <<>>
               /\ build_steps[p].duration = NoDuration

(***************************************************************************)
(* C8: a line "writing image sha256:cd34 ...", with or without an index    *)
(* prefix and whatever active-by-index holds, sets the image id to cd34    *)
(* and changes no field of any build step.                                 *)
(***************************************************************************)
C8_ImageLine ==
    [][(TakesLine /\ TakenLine \in {ImageLine(MaxIndex), BareImageLine})
       => /\ docker_image_id' = ImageDigest
          /\ build_steps' = build_steps]_vars

(***************************************************************************)
(* C9: for a local source, a line processed without an exception is        *)
(* followed by a write of the accumulated log and a commit exactly when    *)
(* at least one second has passed since the last flush of this parse, or   *)
(* since the construction of the parser when there was none.               *)
(***************************************************************************)
C9_Throttle ==
    [][(/\ TakesLine
        /\ ~parser.is_remote
        /\ _parse_line(parser, build_steps, docker_image_id, TakenLine).exc = NoExc)
       => LET since == IF db.flushed_at >= 0 THEN db.flushed_at
                       ELSE parser.last_updated
          IN  /\ (db'.writes = db.writes \o <<"flush", "commit">>)
                    <=> (now' - since >= 1)
              /\ (db'.writes # db.writes)
                    => db'.build_output = join(parser'.lines)]_vars

(***************************************************************************)
(* C10: every parse, local or remote, whatever its lines raised and        *)
(* whatever time has passed, comes to its end with exactly one save of     *)
(* the whole log and of the build steps, followed by a commit; that save   *)
(* carries a new last_updated exactly when the source is remote.           *)
(***************************************************************************)
FinalWrite ==
    /\ pc = "done"
    /\ Len(db.writes) >= 2
    /\ SubSeq(db.writes, Len(db.writes) - 1, Len(db.writes)) = <<"save", "commit">>
    /\ Cardinality({k \in 1..Len(db.writes) : db.writes[k] = "save"}) = 1
    /\ db.build_output = join(NormalizedLines(output))
    /\ build_output = db.build_output
    /\ db.build_steps = build_steps
    /\ db.docker_image_id = docker_image_id
    /\ db.stamped <=> is_remote

C10_EndOfStreamPersistence == (pc = "parsing") ~> FinalWrite

\* a local parse whose only flush window never opened and whose first line
\* raised has saved and committed
C10_Witness ==
    /\ FinalWrite
    /\ ~is_remote
    /\ now - parser.last_updated <= 1
    /\ Len(output) = 2
    /\ handled[1] # NoExc
    /\ ~db.stamped

\* the steps registered in active-by-index by this parse
Registered == {parser.steps[k] : k \in DOMAIN parser.steps}

\* s is a prefix of t
IsPrefix(s, t) == Len(s) <= Len(t) /\ SubSeq(t, 1, Len(s)) = s

(***************************************************************************)
(* C11: the step_index a parse has assigned to a build step is not changed *)
(* by any later line of that parse, also not by a start line that          *)
(* announces the step's slug under another index.                          *)
(***************************************************************************)
C11_StepIndexImmutable ==
    [][TakesLine =>
          \A p \in Registered :
              build_steps'[p].step_index = build_steps[p].step_index]_vars

(***************************************************************************)
(* C12: every change of a build step's output during a parse appends to    *)
(* it or empties it, and it is emptied only in the step that takes the     *)
(* build step from Pending to Running.                                     *)
(***************************************************************************)
C12_OutputGrows ==
    [][\A p \in StepIds :
          \/ IsPrefix(build_steps[p].output, build_steps'[p].output)
          \/ /\ build_steps'[p].output = <<>>
             /\ build_steps[p].status = "Pending"
             /\ build_steps'[p].status = "Running"]_vars

\* the step slug a step-start text announces, <<>> when the text is no
\* step start
StartSlug(text) ==
    IF ~startswith(text, StagePrefix) THEN <<>>
    ELSE Bind(split_sep_maxsplit1(text, "]"), LAMBDA parts :
        IF Len(parts) < 2 THEN <<>>
        ELSE Bind(strip(parts[2]), LAMBDA name :
            IF ~startswith(name, RunVerb) THEN <<>>
            ELSE Bind(StageMarkerSearch(name, 1), LAMBDA m :
                IF ~m.found THEN <<>>
                ELSE Bind(split_sep_maxsplit1(m.group1, "-"), LAMBDA slugs :
                    IF Len(slugs) = 2 THEN slugs[2] ELSE <<>>))))

\* the declared build steps that carry the slug
StepsOfSlug(slug) == {p \in 1..Len(before) : before[p].step_slug = slug}

\* what an update line with the text adds to the output of its step
AttributedText(text) ==
    IF \/ startswith(text, Sha256Prefix)
       \/ startswith(text, DoneWord)
       \/ text = CachedWord
    THEN <<>>
    ELSE IF startswith(text, ErrorWord) THEN SliceFrom(text, 7) \o <<"\n">>
    ELSE partition_tail(text) \o <<"\n">>

\* the attribution of one normalized line: acc.active maps the indices
\* registered so far to build steps, acc.out holds the text attributed to
\* each started build step since its latest start
Attribute(acc, line) ==
    IF line = <<>> THEN acc
    ELSE IF Unindexed(line)
    THEN IF startswith(line, WritingImage) \/ DOMAIN acc.active = {} THEN acc
         ELSE Bind(acc.active[CHOOSE i \in DOMAIN acc.active :
                                 \A j \in DOMAIN acc.active : j <= i], LAMBDA p :
                [acc EXCEPT !.out[p] = @ \o line \o <<"\n">>])
    ELSE Bind(split_maxsplit1(line), LAMBDA splits :
         Bind(IntValue(SliceFrom(splits[1], 1)), LAMBDA i :
            IF startswith(splits[2], WritingImage) THEN acc
            ELSE IF i \in DOMAIN acc.active
            THEN [acc EXCEPT !.out[acc.active[i]] = @ \o AttributedText(splits[2])]
            ELSE IF StepsOfSlug(StartSlug(splits[2])) = {} THEN acc
            ELSE Bind(CHOOSE p \in StepsOfSlug(StartSlug(splits[2])) : TRUE, LAMBDA p :
                    [active |-> [k \in DOMAIN acc.active \cup {i} |->
                                    IF k = i THEN p ELSE acc.active[k]],
                     out |-> [q \in DOMAIN acc.out \cup {p} |->
                                    IF q = p THEN <<>> ELSE acc.out[q]]])))

RECURSIVE AttributeAll(_, _)
AttributeAll(acc, raw_lines) ==
    IF raw_lines = <<>> THEN acc
    ELSE AttributeAll(Attribute(acc, Normalized(Head(raw_lines))), Tail(raw_lines))

\* per started build step, the text the lines of the output attribute to it
AttributedOutput == AttributeAll([active |-> <<>>, out |-> <<>>], output).out

(***************************************************************************)
(* C13: after a parse the output of every build step the parse started is  *)
(* the text of the lines attributed to it since its latest start, in       *)
(* stream order and each followed by a newline: unusual lines whole, ERROR *)
(* lines without their first 7 characters, other continuation lines        *)
(* without their first token, and nothing for sha256, DONE and CACHED      *)
(* lines.                                                                  *)
(***************************************************************************)
C13_OutputIsAttributedLines ==
    pc = "done" =>
        \A p \in DOMAIN AttributedOutput :
            build_steps[p].output = AttributedOutput[p]

\* the index of a line that has a parseable index prefix
IndexOf(line) == IntIndex(IntValue(SliceFrom(split_maxsplit1(line)[1], 1)))

\* the text of such a line after its index prefix
TextOf(line) == split_maxsplit1(line)[2]

\* the line has a parseable index and starts a step whose slug is not
\* declared
StartsUndeclared(raw_line) ==
    /\ Normalized(raw_line) # <<>>
    /\ ~Unindexed(Normalized(raw_line))
    /\ StartSlug(TextOf(Normalized(raw_line))) # <<>>
    /\ StepsOfSlug(StartSlug(TextOf(Normalized(raw_line)))) = {}

\* the build steps are the declared ones: none added, removed or renamed
SameStepRecords ==
    /\ Len(build_steps') = Len(before)
    /\ \A p \in 1..Len(before) : build_steps'[p].step_slug = before[p].step_slug

(***************************************************************************)
(* C14 as stated: the build steps of the candidate are the same records    *)
(* after every line, and a step-start line whose slug is not declared      *)
(* changes no build step and registers no index.                           *)
(***************************************************************************)
C14_UndeclaredStartMutatesNothing ==
    [][TakesLine =>
          /\ SameStepRecords
          /\ StartsUndeclared(TakenLine) =>
                /\ build_steps' = build_steps
                /\ parser'.steps = parser.steps]_vars

(***************************************************************************)
(* C14 amended: the build steps of the candidate are the same records      *)
(* after every line; a step-start line whose slug is not declared and      *)
(* whose index is not registered in active-by-index changes no build step  *)
(* and registers no index, and as long as the index is not registered      *)
(* every line that carries it without starting a declared step changes no  *)
(* build step either.                                                      *)
(***************************************************************************)
C14_UnregisteredUndeclaredStart ==
    [][TakesLine =>
          /\ SameStepRecords
          /\ \A line \in {Normalized(TakenLine)} :
                (/\ line # <<>>
                 /\ ~Unindexed(line)
                 /\ IndexOf(line) \notin DOMAIN parser.steps
                 /\ StepsOfSlug(StartSlug(TextOf(line))) = {})
                   => /\ build_steps' = build_steps
                      /\ parser'.steps = parser.steps]_vars

\* an undeclared step was announced under index 1, not registered, and the
\* DONE line for index 1 that followed left the declared steps as they were
C14_Witness ==
    /\ pc = "parsing"
    /\ output = <<StartLine(1, StartTextUndeclared), DoneLine(1)>>
    /\ handled = <<NoExc, NoExc>>
    /\ DOMAIN parser.steps = {}
    /\ build_steps = before
    /\ build_steps[1].step_index = IntIndex(1)

(***************************************************************************)
(* C15: a line whose processing fails has no effect: all fields of all     *)
(* build steps and the image id are what they were before the line.        *)
(***************************************************************************)
C15_ErrorDropsEffect ==
    [][(/\ TakesLine
        /\ _parse_line(parser, build_steps, docker_image_id, TakenLine).exc # NoExc)
       => /\ build_steps' = build_steps
          /\ docker_image_id' = docker_image_id]_vars

\* the line has a parseable index and its text starts a step
IsStartLine(line) ==
    /\ line # <<>>
    /\ ~Unindexed(line)
    /\ StartSlug(TextOf(line)) # <<>>

(***************************************************************************)
(* C16: a step-start line whose index is already registered in             *)
(* active-by-index does not take the start path: no build step changes     *)
(* its status, step_index or command, and the output a build step had      *)
(* stays a prefix of its output.                                           *)
(***************************************************************************)
C16_RegisteredStartSkipsStartPath ==
    [][TakesLine =>
          \A line \in {Normalized(TakenLine)} :
              (IsStartLine(line) /\ IndexOf(line) \in DOMAIN parser.steps)
                  => \A p \in StepIds :
                        /\ build_steps'[p].status = build_steps[p].status
                        /\ build_steps'[p].step_index = build_steps[p].step_index
                        /\ build_steps'[p].command = build_steps[p].command
                        /\ IsPrefix(build_steps[p].output, build_steps'[p].output)]_vars

\* step b was started under index 1, which an earlier parse had given to
\* step a; the start line came again and was added to the output step a
\* already had
C16_Witness ==
    /\ pc = "parsing"
    /\ output = <<StartLine(1, StartTextB), StartLine(1, StartTextB)>>
    /\ handled = <<NoExc, NoExc>>
    /\ parser.steps[IntIndex(1)] = 2
    /\ build_steps[2].status = "Running"
    /\ build_steps[2].output = <<>>
    /\ before[1].output # <<>>
    /\ build_steps[1].status = before[1].status
    /\ build_steps[1].output =
          before[1].output \o partition_tail(StartTextB) \o <<"\n">>

(***************************************************************************)
(* C17: at every point of a parse the map the updates are looked up in     *)
(* (dc_steps_by_index) holds, for every index registered in                *)
(* active-by-index (self.steps), the build step registered under it: an    *)
(* update line reaches the step its start line registered.                 *)
(***************************************************************************)
C17_RoutingConsistency ==
    pc = "parsing" =>
        \A k \in DOMAIN parser.steps :
            /\ k \in DOMAIN parser.dc_steps_by_index
            /\ parser.dc_steps_by_index[k] = parser.steps[k]

(***************************************************************************)
(* C18: a line without a parseable index never takes the step-start path:  *)
(* it changes no status, step_index or command, empties no output and      *)
(* adds no key to active-by-index, whose keys are all integer indices.     *)
(***************************************************************************)
C18_UnusualNeverStarts ==
    [][TakesLine =>
          /\ \A k \in DOMAIN parser'.steps : k.depth = 0
          /\ \A line \in {Normalized(TakenLine)} :
                (line # <<>> /\ Unindexed(line))
                    => /\ parser'.steps = parser.steps
                       /\ \A p \in StepIds :
                            /\ build_steps'[p].status = build_steps[p].status
                            /\ build_steps'[p].step_index = build_steps[p].step_index
                            /\ build_steps'[p].command = build_steps[p].command
                            /\ IsPrefix(build_steps[p].output, build_steps'[p].output)]_vars

(***************************************************************************)
(* C19: when only Success steps had a duration before the parse, then in   *)
(* every state of the parse a build step has a duration only if its        *)
(* status is Success.                                                      *)
(***************************************************************************)
C19_DurationOnlyOnSuccess ==
    (\A p \in 1..Len(before) :
        before[p].duration.set => before[p].status = "Success")
    => \A p \in StepIds :
          build_steps[p].duration.set => build_steps[p].status = "Success"

(***************************************************************************)
(* C20: the log saved at the end of the stream is made of the normalized   *)
(* lines of the input that are not empty, each once and in the order of    *)
(* delivery, also those that matched no rule or raised; a line that is     *)
(* empty once normalized adds nothing to the log and changes no build      *)
(* step.                                                                   *)
(***************************************************************************)
C20_FullLog ==
    [][/\ pc' = "done" =>
            /\ build_output' = join(NormalizedLines(output'))
            /\ db'.build_output = build_output'
       /\ (TakesLine /\ Normalized(TakenLine) = <<>>) =>
            /\ parser'.lines = parser.lines
            /\ build_steps' = build_steps
            /\ docker_image_id' = docker_image_id
       /\ (TakesLine /\ Normalized(TakenLine) # <<>>) =>
            parser'.lines = Append(parser.lines, Normalized(TakenLine))]_vars

\* a blank line and a line that raised: the saved log is the second line
C20_Witness ==
    /\ pc = "done"
    /\ output = <<BlankLine, BareImageLine>>
    /\ handled = <<NoExc, "IndexError">>
    /\ build_output = ImageText
    /\ db.build_output = ImageText
    /\ build_steps = before

====
